---- MODULE Spec2Model ----
(***************************************************************************)
(* Streaming short-time Fourier transform engine (src/src/lib.rs, STFT<T>). *)
(*                                                                         *)
(* The engine is modelled as a state machine over its struct fields.  The  *)
(* caller is modelled as feeding one of two signals (the ramp of the crate *)
(* doc example, the sample pattern of tests::test_stft) in chunks of any   *)
(* size and calling the public methods in any order.  A panic (assert!,    *)
(* assert_eq!) ends the run: pc becomes "panicked" and nothing else moves. *)
(*                                                                         *)
(* Reals are modelled as integers.  The external collaborators are         *)
(* modelled by what their interface says:                                  *)
(*   strider::SliceRingImpl  - a FIFO; drop_many_front and read_many_front *)
(*                             act on min(len, count) elements and return  *)
(*                             that count, which lib.rs discards;          *)
(*   rustfft FFT::process    - the forward unnormalised DFT, in fixed      *)
(*                             point; the input slice is scratch space and *)
(*                             its contents after the call are unspecified;*)
(*   apodize::*_iter         - a pure generator of window_size gains.      *)
(***************************************************************************)
EXTENDS Integers, Sequences, FiniteSets, TLC

\* ------------------------------------------------------------------ bounds
MaxWindow == 3      \* window_size and step_size are drawn from 0..MaxWindow
MaxTotal == 5       \* at most this many samples are appended in a run
MaxChunk == 3       \* append_samples takes 0..MaxChunk samples per call
MaxOut == 2         \* caller's output buffers have 0..MaxOut elements

\* ------------------------------------------------------------------ values
WindowTypes == {"Hanning", "Hamming", "Blackman", "Nuttall", "None"}

None == [some |-> FALSE]
Some(v) == [some |-> TRUE, val |-> v]

Zero == 0
ComplexZero == [re |-> Zero, im |-> Zero]
Complex(re, im) == [re |-> re, im |-> im]

Min(a, b) == IF a <= b THEN a ELSE b

Repeat(v, n) == [i \in 1..n |-> v]

\* The two signals a caller feeds: the doc example's (0..n).map(|x| x as f64)
\* and the samples of tests::test_stft, repeated.
Signals == {"ramp", "test"}
TestSamples == <<500, 0, 100, 500, 0, 100, 0, 500>>
SampleAt(sig, k) ==
    IF sig = "ramp" THEN k ELSE TestSamples[(k % Len(TestSamples)) + 1]

\* The next n samples of the signal once `from` samples have been fed.
Chunk(sig, from, n) == [i \in 1..n |-> SampleAt(sig, from + i - 1)]

VARIABLES
    pc,               \* "init" | "live" | "panicked"
    window_size, step_size, window,
    sample_ring, real_input, complex_input, complex_output,
    signal,           \* which signal the caller feeds
    total_appended,   \* samples appended so far
    total_dropped,    \* samples dropped so far
    output,           \* the caller's output buffer, as the last call left it
    fft_input,        \* the complex input as handed to the last FFT::process
    last_op,          \* the last method called
    new_args,         \* the arguments STFT::new was called with
    peeked,           \* the samples the last read_many_front copied out
    columns,          \* columns the caller's drain loop has emitted
    call              \* a call of a free function and its result

vars == <<pc, window_size, step_size, window, sample_ring, real_input,
          complex_input, complex_output, signal, total_appended,
          total_dropped, output, fft_input, last_op, new_args, peeked,
          columns, call>>

\* What the engine's methods never touch: the caller's column count and the
\* calls of free functions.
aside == <<columns, call>>

fields == <<window_size, step_size, window, sample_ring, real_input,
            complex_input, complex_output>>

\* ------------------------------------------------------- strider::SliceRing
\* Mutant: the last value of a batch is lost.
push_many_back_short(ring, input) ==
    ring \o SubSeq(input, 1, Len(input) - 1)

\* Mutant: the pushed values replace what the ring held.
push_many_back_replacing(ring, input) == input

push_many_back(ring, input) == ring \o input

drop_count(ring, count) == Min(Len(ring), count)

\* Mutant: twice the count is dropped.
drop_many_front_twice(ring, count) ==
    SubSeq(ring, drop_count(ring, 2 * count) + 1, Len(ring))

\* Mutant: one value more than the count is dropped.
drop_many_front_one_more(ring, count) ==
    SubSeq(ring, drop_count(ring, count + 1) + 1, Len(ring))

drop_many_front(ring, count) ==
    SubSeq(ring, drop_count(ring, count) + 1, Len(ring))

\* Mutant: the values read are taken out of the ring.
read_many_front_consuming(ring, out) ==
    [ring |-> SubSeq(ring, Min(Len(ring), Len(out)) + 1, Len(ring)),
     out  |-> [i \in 1..Len(out) |-> IF i <= Len(ring) THEN ring[i] ELSE out[i]]]

\* read_many_front(&self, output) copies the first min(len, output.len())
\* elements into output and leaves the ring as it is.
read_many_front(ring, out) ==
    [ring |-> ring,
     out  |-> [i \in 1..Len(out) |-> IF i <= Len(ring) THEN ring[i] ELSE out[i]]]

\* ------------------------------------------------------------ queries
\* Mutant: half the window rounded up.
output_size_rounded_up == (window_size + 1) \div 2

output_size == window_size \div 2

len == Len(sample_ring)

is_empty == len = 0

\* Mutant: one sample short of a window counts as enough.
contains_enough_off_by_one == window_size <= Len(sample_ring) + 1

contains_enough_to_compute == window_size <= Len(sample_ring)

\* ------------------------------------------------------- apodize (external)
\* Stand-in for apodize::{hanning,hamming,blackman,nuttall}_iter(size): a pure
\* function of the window type, the index and the size, as integer gains that
\* taper towards both ends.
apodize(window_type, i, size) ==
    LET edge == (i = 1 \/ i = size)
    IN  CASE window_type = "Hanning"  -> IF edge THEN 0 ELSE 2
          [] window_type = "Hamming"  -> IF edge THEN 1 ELSE 2
          [] window_type = "Blackman" -> IF edge THEN 0 ELSE 3
          [] window_type = "Nuttall"  -> IF edge THEN 1 ELSE 3

window_type_to_window_vec(window_type, size) ==
    IF window_type = "None" THEN None
    ELSE Some([i \in 1..size |-> apodize(window_type, i, size)])

\* ------------------------------------------------------- rustfft (external)
\* Twiddle factors cos(2 pi k / n) and sin(2 pi k / n), times TwiddleScale.
TwiddleScale == 1000

Cos(k, n) ==
    CASE n = 1 -> 1000
      [] n = 2 -> <<1000, -1000>>[k + 1]
      [] n = 3 -> <<1000, -500, -500>>[k + 1]
      [] n = 4 -> <<1000, 0, -1000, 0>>[k + 1]
      [] n = 5 -> <<1000, 309, -809, -809, 309>>[k + 1]
      [] n = 6 -> <<1000, 500, -500, -1000, -500, 500>>[k + 1]

Sin(k, n) ==
    CASE n = 1 -> 0
      [] n = 2 -> <<0, 0>>[k + 1]
      [] n = 3 -> <<0, 866, -866>>[k + 1]
      [] n = 4 -> <<0, 1000, 0, -1000>>[k + 1]
      [] n = 5 -> <<0, 951, 588, -588, -951>>[k + 1]
      [] n = 6 -> <<0, 866, 866, 0, -866, -866>>[k + 1]

\* Rounds a value scaled by TwiddleScale to the nearest integer.
Unscale(x) == (2 * x + TwiddleScale) \div (2 * TwiddleScale)

\* Sum over n = 1..upto of x[n] * e^(-2 pi i (n-1)(k-1) / N), scaled.
RECURSIVE DftSumRe(_, _, _)
DftSumRe(x, k, upto) ==
    IF upto = 0 THEN 0
    ELSE LET t == ((upto - 1) * (k - 1)) % Len(x)
         IN  DftSumRe(x, k, upto - 1)
               + x[upto].re * Cos(t, Len(x)) + x[upto].im * Sin(t, Len(x))

RECURSIVE DftSumIm(_, _, _)
DftSumIm(x, k, upto) ==
    IF upto = 0 THEN 0
    ELSE LET t == ((upto - 1) * (k - 1)) % Len(x)
         IN  DftSumIm(x, k, upto - 1)
               + x[upto].im * Cos(t, Len(x)) - x[upto].re * Sin(t, Len(x))

\* The spectrum FFT::process writes to its output slice.
fft_output(input) ==
    [k \in 1..Len(input) |->
        Complex(Unscale(DftSumRe(input, k, Len(input))),
                Unscale(DftSumIm(input, k, Len(input))))]

\* FFT::process uses the input slice as scratch space: what it holds after
\* the call is unspecified.  The outcomes modelled: left as it was (an
\* algorithm that only reads it), or overwritten with intermediate values.
Scratch == Complex(7, 40)
fft_input_after(input) == {input, [i \in 1..Len(input) |-> Scratch]}

\* ------------------------------------------------------------ numerics
\* The largest r in lo..hi with r * r <= x, by bisection.
RECURSIVE ISqrtIn(_, _, _)
ISqrtIn(x, lo, hi) ==
    IF lo = hi THEN lo
    ELSE LET mid == (lo + hi + 1) \div 2
         IN  IF mid * mid <= x THEN ISqrtIn(x, mid, hi)
             ELSE ISqrtIn(x, lo, mid - 1)

\* Complex::norm, rounded down to an integer.
norm(c) ==
    LET a == IF c.re < 0 THEN -c.re ELSE c.re
        b == IF c.im < 0 THEN -c.im ELSE c.im
    IN  ISqrtIn(c.re * c.re + c.im * c.im, 0, a + b)

NaN(negative) == [class |-> "nan", negative |-> negative]
NegInfinity == [class |-> "inf", negative |-> TRUE]
Finite(v) == [class |-> "finite", negative |-> v < 0, val |-> v]

RECURSIVE Log10Floor(_)
Log10Floor(v) == IF v < 10 THEN 0 ELSE 1 + Log10Floor(v \div 10)

\* Float::log10 of an integer value: NaN below zero (with the sign bit the
\* platform gives it), -inf at zero, otherwise log10 rounded down.
log10(value, nan_negative) ==
    IF value < 0 THEN NaN(nan_negative)
    ELSE IF value = 0 THEN NegInfinity
    ELSE Finite(Log10Floor(value))

\* log10 of the fraction num / den (den > 0), rounded down: below one it is
\* negative.
RECURSIVE Log10FloorRatio(_, _)
Log10FloorRatio(num, den) ==
    IF num >= den THEN Log10Floor(num \div den)
    ELSE Log10FloorRatio(10 * num, den) - 1

\* Float::log10 of the value num / den.
log10_ratio(num, den, nan_negative) ==
    IF num < 0 THEN NaN(nan_negative)
    ELSE IF num = 0 THEN NegInfinity
    ELSE Finite(Log10FloorRatio(num, den))

\* Signed::is_negative for floats is the sign bit.
is_negative(x) == x.negative

\* log10_positive of the value num / den, as a float.
log10_positive_ratio(num, den, nan_negative) ==
    LET log == log10_ratio(num, den, nan_negative)
    IN  IF is_negative(log) THEN Finite(Zero) ELSE log

log10_positive(value, nan_negative) ==
    LET log == log10(value, nan_negative)
    IN  IF is_negative(log) THEN Zero
        ELSE IF log.class = "finite" THEN log.val ELSE log

\* ---------------------------------------------------------- construction
NoCall == [fn |-> "none", arg |-> <<>>, done |-> FALSE, result |-> <<>>]

\* Everything but the calls of free functions.
engine_vars == <<pc, window_size, step_size, window, sample_ring, real_input,
                 complex_input, complex_output, signal, total_appended,
                 total_dropped, output, fft_input, last_op, new_args, peeked,
                 columns>>

EngineInit ==
    /\ pc = "init"
    /\ peeked = <<>>
    /\ columns = 0
    /\ signal \in Signals
    /\ window_size = 0
    /\ step_size = 0
    /\ window = None
    /\ sample_ring = <<>>
    /\ real_input = <<>>
    /\ complex_input = <<>>
    /\ complex_output = <<>>
    /\ total_appended = 0
    /\ total_dropped = 0
    /\ output = <<>>
    /\ fft_input = <<>>
    /\ last_op = "none"
    /\ new_args = [window_type |-> "None", window_size |-> 0, step_size |-> 0]

Init == EngineInit /\ call = NoCall

\* Mutant: a step as long as the window is refused.
new_precondition_strict(size, step) == step < size

\* assert!(step_size <= window_size)
new_precondition(size, step) == step <= size

Panic ==
    /\ pc' = "panicked"
    /\ UNCHANGED <<fields, total_appended, total_dropped, fft_input, peeked>>

new_with_window_vec(window_vec, size, step) ==
    IF ~new_precondition(size, step) THEN Panic
    ELSE /\ pc' = "live"
         /\ window_size' = size
         /\ step_size' = step
         /\ sample_ring' = <<>>
         /\ window' = window_vec
         /\ real_input' = Repeat(Zero, size)
         /\ complex_input' = Repeat(ComplexZero, size)
         /\ complex_output' = Repeat(ComplexZero, size)
         /\ UNCHANGED <<total_appended, total_dropped, fft_input, peeked>>

\* window_type_to_window_vec runs first: a panic of the constructor is the
\* assert! of new_with_window_vec.
new(window_type, size, step) ==
    /\ pc = "init"
    /\ last_op' = "new"
    /\ new_args' = [window_type |-> window_type, window_size |-> size,
                    step_size |-> step]
    /\ new_with_window_vec(window_type_to_window_vec(window_type, size),
                           size, step)
    /\ UNCHANGED <<signal, output>>

\* ------------------------------------------------------------- streaming
append_samples(n) ==
    /\ pc = "live"
    /\ total_appended + n <= MaxTotal
    /\ last_op' = "append_samples"
    /\ sample_ring' =
         push_many_back(sample_ring, Chunk(signal, total_appended, n))
    /\ total_appended' = total_appended + n
    /\ UNCHANGED <<pc, window_size, step_size, window, real_input,
                   complex_input, complex_output, signal, total_dropped,
                   output, fft_input, new_args, peeked>>

move_to_next_column ==
    /\ pc = "live"
    /\ last_op' = "move_to_next_column"
    /\ sample_ring' = drop_many_front(sample_ring, step_size)
    /\ total_dropped' = total_dropped + (Len(sample_ring) - Len(sample_ring'))
    /\ UNCHANGED <<pc, window_size, step_size, window, real_input,
                   complex_input, complex_output, signal, total_appended,
                   output, fft_input, new_args, peeked>>

\* ------------------------------------------------------------ the pipeline
\* for (dst, src) in real_input.iter_mut().zip(window.iter()) { *dst = *dst * *src }
multiply_with_window(real, win) ==
    IF win.some
    THEN [i \in 1..Len(real) |->
            IF i <= Len(win.val) THEN real[i] * win.val[i] ELSE real[i]]
    ELSE real

\* for (dst, src) in complex_input.iter_mut().zip(real_input.iter()) { dst.re = *src }
copy_real_parts(complex, real) ==
    [i \in 1..Len(complex) |->
        IF i <= Len(real) THEN [complex[i] EXCEPT !.re = real[i]]
        ELSE complex[i]]

compute_into_complex_output ==
    IF ~contains_enough_to_compute THEN Panic
    ELSE LET read == read_many_front(sample_ring, real_input)
             windowed == multiply_with_window(read.out, window)
             input == copy_real_parts(complex_input, windowed)
         IN  /\ pc' = "live"
             /\ sample_ring' = read.ring
             /\ peeked' = read.out
             /\ real_input' = windowed
             /\ fft_input' = input
             /\ complex_output' = fft_output(input)
             /\ complex_input' \in fft_input_after(input)
             /\ UNCHANGED <<window_size, step_size, window,
                            total_appended, total_dropped>>

\* The caller's buffer of n elements: the one it used last when that has n
\* elements, a fresh zeroed one otherwise.
caller_buffer(n) == IF Len(output) = n THEN output ELSE Repeat(Zero, n)

\* Mutant: a longer buffer than output_size() is accepted.
output_len_at_least(buf) == output_size <= Len(buf)

\* assert_eq!(self.output_size(), output.len())
output_len_ok(buf) == output_size = Len(buf)

\* What each variant stores for a spectrum value: log10_positive(src.norm()),
\* *src, src.norm().
post_process(variant, src) ==
    CASE variant = "compute_column" -> log10_positive(norm(src), TRUE)
      [] variant = "compute_complex_column" -> src
      [] variant = "compute_magnitude_column" -> norm(src)

\* for (dst, src) in output.iter_mut().zip(self.complex_output.iter())
zip_into(buf, spectrum, variant) ==
    [i \in 1..Len(buf) |->
        IF i <= Len(spectrum) THEN post_process(variant, spectrum[i])
        ELSE buf[i]]

\* The shape the three compute variants share.
compute(buf, variant) ==
    /\ pc = "live"
    /\ last_op' = variant
    /\ IF ~output_len_ok(buf)
       THEN /\ Panic
            /\ UNCHANGED <<real_input, complex_input, complex_output>>
            /\ output' = buf
       ELSE /\ compute_into_complex_output
            /\ output' = IF pc' = "live"
                         THEN zip_into(buf, complex_output', variant)
                         ELSE buf
    /\ UNCHANGED <<signal, new_args>>

compute_column(n) == compute(caller_buffer(n), "compute_column")

compute_complex_column(n) == compute(caller_buffer(n), "compute_complex_column")

compute_magnitude_column(n) ==
    compute(caller_buffer(n), "compute_magnitude_column")

Next ==
    \/ \E wt \in WindowTypes, size \in 0..MaxWindow, step \in 0..MaxWindow :
          new(wt, size, step) /\ UNCHANGED aside
    \/ \E n \in 0..MaxChunk : append_samples(n) /\ UNCHANGED aside
    \/ \E n \in 0..MaxOut : compute_column(n) /\ UNCHANGED aside
    \/ \E n \in 0..MaxOut : compute_complex_column(n) /\ UNCHANGED aside
    \/ \E n \in 0..MaxOut : compute_magnitude_column(n) /\ UNCHANGED aside
    \/ move_to_next_column /\ UNCHANGED aside

Spec == Init /\ [][Next]_vars

\* ------------------------------------------------- the crate doc example
\* for some_samples in all_samples.chunks(..) {
\*     stft.append_samples(some_samples);
\*     while stft.contains_enough_to_compute() {
\*         stft.compute_column(&mut spectrogram_column[..]);
\*         stft.move_to_next_column();
\*     }
\* }
\* The column count saturates, so that a loop that never exits stays within
\* finitely many states.
ColumnCap == MaxTotal + 2

\* The next chunk is appended once the while loop has exited.
example_append(n) ==
    /\ \/ last_op = "new"
       \/ /\ last_op \in {"append_samples", "move_to_next_column"}
          /\ ~contains_enough_to_compute
    /\ append_samples(n)
    /\ UNCHANGED aside

\* The loop body's first statement, entered while the condition holds.
example_compute ==
    /\ last_op \in {"append_samples", "move_to_next_column"}
    /\ contains_enough_to_compute
    /\ compute_column(output_size)
    /\ columns' = Min(columns + 1, ColumnCap)
    /\ UNCHANGED call

\* The loop body's second statement.
example_advance ==
    /\ last_op = "compute_column"
    /\ move_to_next_column
    /\ UNCHANGED aside

ExampleNext ==
    \/ \E wt \in WindowTypes, size \in 0..MaxWindow, step \in 0..MaxWindow :
          new(wt, size, step) /\ UNCHANGED aside
    \/ \E n \in 1..MaxChunk : example_append(n)
    \/ example_compute
    \/ example_advance

ExampleSpec == Init /\ [][ExampleNext]_vars

\* The loop is sequential code of a running program: its next statement is
\* eventually executed.
FairExampleSpec ==
    /\ ExampleSpec
    /\ WF_vars(example_compute)
    /\ WF_vars(example_advance)

\* ------------------------------------------------------ the free functions
\* The values log10_positive is called with, as fractions: the values of
\* tests::test_log10_positive, their neighbours, and values below one.
Numerators == (-3 .. 12) \cup {99, 100, 101, 999, 1000, 1001}
Denominators == {1, 4, 10}

Log10Calls ==
    {[fn |-> "log10_positive",
      arg |-> [num |-> n, den |-> d, nan_negative |-> s],
      done |-> FALSE, result |-> <<>>] :
        n \in Numerators, d \in Denominators, s \in BOOLEAN}

log10_positive_call ==
    /\ call.fn = "log10_positive"
    /\ ~call.done
    /\ call' = [call EXCEPT
                  !.done = TRUE,
                  !.result = log10_positive_ratio(call.arg.num, call.arg.den,
                                                  call.arg.nan_negative)]
    /\ UNCHANGED engine_vars

\* Strings are sequences of characters.  Two characters outside ASCII stand
\* for what str::to_lowercase does beyond it: the Kelvin sign lowercases to
\* "k", the dotted capital I to "i" followed by a combining dot.
LowerLetters == <<"a", "b", "c", "d", "e", "f", "g", "h", "i", "j", "k", "l", "m", "n", "o", "p", "q", "r", "s", "t", "u", "v", "w", "x", "y", "z">>
UpperLetters == <<"A", "B", "C", "D", "E", "F", "G", "H", "I", "J", "K", "L", "M", "N", "O", "P", "Q", "R", "S", "T", "U", "V", "W", "X", "Y", "Z">>
KelvinSign == "U+212A"
DottedCapitalI == "U+0130"
CombiningDot == "U+0307"

IndexIn(letters, c) == CHOOSE i \in 1..Len(letters) : letters[i] = c

\* char::to_lowercase, which may yield more than one character.
char_to_lowercase(c) ==
    IF \E i \in 1..Len(UpperLetters) : UpperLetters[i] = c
    THEN <<LowerLetters[IndexIn(UpperLetters, c)]>>
    ELSE IF c = KelvinSign THEN <<"k">>
    ELSE IF c = DottedCapitalI THEN <<"i", CombiningDot>>
    ELSE <<c>>

\* Mutant: the string is compared as written.
to_lowercase_identity(s) == s

\* str::to_lowercase
RECURSIVE to_lowercase(_)
to_lowercase(s) ==
    IF s = <<>> THEN <<>>
    ELSE char_to_lowercase(Head(s)) \o to_lowercase(Tail(s))

Ok(v) == [ok |-> TRUE, val |-> v]
Err(e) == [ok |-> FALSE, val |-> e]

\* The match of from_str on an already lowercased string.
match_lower(lower) ==
    CASE lower = <<"h", "a", "n", "n", "i", "n", "g">> -> Ok("Hanning")
      [] lower = <<"h", "a", "n", "n">> -> Ok("Hanning")
      [] lower = <<"h", "a", "m", "m", "i", "n", "g">> -> Ok("Hamming")
      [] lower = <<"b", "l", "a", "c", "k", "m", "a", "n">> -> Ok("Blackman")
      [] lower = <<"n", "u", "t", "t", "a", "l", "l">> -> Ok("Nuttall")
      [] lower = <<"n", "o", "n", "e">> -> Ok("None")
      [] OTHER -> Err("no match")

\* Mutant: the arm for "none" is missing.
from_str_without_none(s) ==
    LET r == match_lower(to_lowercase(s))
    IN  IF r = Ok("None") THEN Err("no match") ELSE r

\* <WindowType as FromStr>::from_str
from_str(s) == match_lower(to_lowercase(s))

\* <WindowType as Display>::fmt writes the Debug form, the variant's name.
to_string(window_type) ==
    CASE window_type = "Hanning" -> <<"H", "a", "n", "n", "i", "n", "g">>
      [] window_type = "Hamming" -> <<"H", "a", "m", "m", "i", "n", "g">>
      [] window_type = "Blackman" -> <<"B", "l", "a", "c", "k", "m", "a", "n">>
      [] window_type = "Nuttall" -> <<"N", "u", "t", "t", "a", "l", "l">>
      [] window_type = "None" -> <<"N", "o", "n", "e">>

\* A character in either letter case.
BothCases(c) ==
    IF \E i \in 1..Len(LowerLetters) : LowerLetters[i] = c
    THEN {c, UpperLetters[IndexIn(LowerLetters, c)]}
    ELSE IF \E i \in 1..Len(UpperLetters) : UpperLetters[i] = c
    THEN {c, LowerLetters[IndexIn(UpperLetters, c)]}
    ELSE {c}

\* A string in every letter case.
RECURSIVE CaseVariants(_)
CaseVariants(s) ==
    IF s = <<>> THEN {<<>>}
    ELSE {<<c>> \o t : c \in BothCases(Head(s)), t \in CaseVariants(Tail(s))}

\* The strings from_str is called with: the names it knows and strings
\* close to them, in every letter case.
ParseWords ==
    {<<"h", "a", "n", "n", "i", "n", "g">>, <<"h", "a", "n", "n">>, <<"h", "a", "m", "m", "i", "n", "g">>, <<"b", "l", "a", "c", "k", "m", "a", "n">>, <<"n", "u", "t", "t", "a", "l", "l">>, <<"n", "o", "n", "e">>,
     <<>>, <<"h", "a", "n">>, <<"h", "a", "n", "n", "n">>, <<" ", "n", "o", "n", "e">>, <<"n", "o", "n", "e", "e">>, <<"n", "o", "n", "-", "e">>,
     <<"b", "l", "a", "c", KelvinSign, "m", "a", "n">>, <<"H", "A", "N", "N", DottedCapitalI, "N", "G">>}

ParseInputs == UNION {CaseVariants(w) : w \in ParseWords}

ParseCalls ==
    {[fn |-> "from_str", arg |-> s, done |-> FALSE, result |-> <<>>] :
        s \in ParseInputs}

DisplayCalls ==
    {[fn |-> "to_string", arg |-> w, done |-> FALSE, result |-> <<>>] :
        w \in WindowTypes}

from_str_call ==
    /\ call.fn = "from_str"
    /\ ~call.done
    /\ call' = [call EXCEPT !.done = TRUE, !.result = from_str(call.arg)]
    /\ UNCHANGED engine_vars

to_string_call ==
    /\ call.fn = "to_string"
    /\ ~call.done
    /\ call' = [call EXCEPT !.done = TRUE, !.result = to_string(call.arg)]
    /\ UNCHANGED engine_vars

FunctionInit ==
    EngineInit /\ call \in Log10Calls \cup ParseCalls \cup DisplayCalls

FunctionNext ==
    \/ log10_positive_call
    \/ from_str_call
    \/ to_string_call

FunctionSpec == FunctionInit /\ [][FunctionNext]_vars

\* ================================================================= claims
Computes ==
    {"compute_column", "compute_complex_column", "compute_magnitude_column"}

\* An engine exists once construction has succeeded; it is still there, as
\* the panic left it, when a later call panicked.
engine_exists == pc = "live" \/ (pc = "panicked" /\ last_op # "new")

\* The scratch buffers and the caller's buffer are as they were before the
\* call (the caller's buffer being the one the call was given).
NothingWritten ==
    /\ real_input' = real_input
    /\ complex_input' = complex_input
    /\ complex_output' = complex_output
    /\ output' = caller_buffer(Len(output'))

\* C1: in every state of an engine, length() is the number of samples
\* appended minus the number of samples dropped; with nothing dropped it is
\* the number of samples appended.
C1_LengthIsAppendedMinusDropped ==
    engine_exists =>
        /\ len = total_appended - total_dropped
        /\ (total_dropped = 0 => len = total_appended)

C1_Witness ==
    /\ pc = "live"
    /\ total_appended >= 3
    /\ total_dropped >= 1
    /\ len >= 1
    /\ last_op \in Computes

\* C2: in every state of an engine, contains_enough_to_compute() is true
\* exactly when length() >= window_size.
C2_EnoughIffLengthAtLeastWindow ==
    engine_exists =>
        /\ contains_enough_to_compute <=> (len >= window_size)
        /\ (len = window_size - 1 => ~contains_enough_to_compute)
        /\ (len = window_size => contains_enough_to_compute)

C2_Witness ==
    /\ pc = "live"
    /\ window_size >= 2
    /\ len = window_size
    /\ last_op = "append_samples"
    /\ contains_enough_to_compute

\* C3 (as claimed): every call of move_to_next_column that completes
\* decreases length() by exactly step_size, in whatever state it is called,
\* and leaves the remaining samples as they were.
C3_MoveDropsExactlyStep ==
    [][(pc = "live" /\ last_op' = "move_to_next_column" /\ pc' = "live") =>
          /\ len' = len - step_size
          /\ sample_ring' = SubSeq(sample_ring, step_size + 1, len)]_vars

\* C4: no compute variant changes the sample ring, whether it completes or
\* panics; the number of samples dropped changes only in
\* move_to_next_column.
C4_ComputeLeavesRing ==
    [][/\ (pc = "live" /\ last_op' \in Computes) =>
            /\ sample_ring' = sample_ring
            /\ total_dropped' = total_dropped
       /\ (total_dropped' # total_dropped) =>
            last_op' = "move_to_next_column"]_vars

C4_Witness ==
    /\ pc = "live"
    /\ last_op \in Computes
    /\ window_size >= 2
    /\ len > window_size
    /\ fft_input # <<>>

\* C5 (as claimed): compute_column called twice in a row on a Ready engine,
\* with the same buffer and nothing in between, yields the same output.
C5_ComputeColumnRepeatable ==
    [][(/\ pc = "live" /\ last_op = "compute_column"
        /\ pc' = "live" /\ last_op' = "compute_column") =>
          output' = output]_vars

\* C6 (as claimed): the complex input handed to the forward transform has,
\* at every index, the windowed sample as its real part and zero as its
\* imaginary part, on every compute call.
C6_FftInputIsRealWindowed ==
    (engine_exists /\ fft_input # <<>>) =>
        \A i \in 1..window_size :
            /\ fft_input[i].re = real_input[i]
            /\ fft_input[i].im = Zero

\* C7: a compute variant called while Filling with a buffer of output_size()
\* elements panics, and the ring, the scratch buffers and the caller's
\* buffer are as before the call.
C7_ComputeWhileFillingPanics ==
    [][(/\ pc = "live" /\ last_op' \in Computes
        /\ len < window_size
        /\ Len(output') = output_size) =>
          /\ pc' = "panicked"
          /\ sample_ring' = sample_ring
          /\ fft_input' = fft_input
          /\ NothingWritten]_vars

C7_Witness ==
    /\ pc = "panicked"
    /\ last_op \in Computes
    /\ Len(output) = output_size
    /\ len >= 1
    /\ len < window_size

\* C8: a compute variant given a buffer whose length is not output_size()
\* panics in every state, before the ring is read and before any scratch or
\* output element is written; given a buffer of output_size() elements on a
\* Ready engine it does not panic.
C8_WrongOutputLengthPanics ==
    [][(pc = "live" /\ last_op' \in Computes) =>
          /\ (Len(output') # output_size) =>
                /\ pc' = "panicked"
                /\ sample_ring' = sample_ring
                /\ fft_input' = fft_input
                /\ NothingWritten
          /\ (Len(output') = output_size /\ len >= window_size) =>
                pc' = "live"]_vars

C8_Witness ==
    /\ pc = "panicked"
    /\ last_op \in Computes
    /\ Len(output) > output_size
    /\ window_size >= 2
    /\ len >= window_size
    /\ fft_input # <<>>

\* C9 (as claimed): move_to_next_column called with length() < step_size
\* panics and leaves the ring as it was.
C9_MoveBeyondLengthPanics ==
    [][(pc = "live" /\ last_op' = "move_to_next_column"
        /\ len < step_size) =>
          /\ pc' = "panicked"
          /\ sample_ring' = sample_ring]_vars

C11_OutputIsFirstHalf ==
    [][/\ engine_exists' =>
            /\ 2 * output_size' <= window_size'
            /\ window_size' < 2 * output_size' + 2
       /\ engine_exists => output_size' = output_size
       /\ (pc = "live" /\ last_op' \in Computes /\ pc' = "live") =>
            /\ Len(output') = output_size
            /\ Len(output') < Len(complex_output') \/ window_size = 0
            /\ complex_output' = fft_output(fft_input')
            /\ \A i \in 1..output_size :
                  output'[i] = post_process(last_op', fft_output(fft_input')[i])]_vars

C11_Witness ==
    /\ pc = "live"
    /\ last_op = "compute_complex_column"
    /\ window_size = 3
    /\ output_size = 1
    /\ Len(output) = 1
    /\ output[1] = complex_output[1]
    /\ complex_output[2] # complex_output[1]

\* The concatenation of everything appended so far.
Stream == Chunk(signal, 0, total_appended)

\* C12: in the doc example's loop, column k (k = 0, 1, ...) is computed from
\* the samples k * step_size .. k * step_size + window_size - 1 of the
\* stream, and the first window_size - step_size samples peeked for a column
\* are the last window_size - step_size peeked for the column before it.
C12_OverlapRetained ==
    [][(last_op' = "compute_column" /\ pc' = "live") =>
          /\ columns * step_size + window_size <= total_appended
          /\ peeked' = SubSeq(Stream, columns * step_size + 1,
                              columns * step_size + window_size)
          /\ columns >= 1 =>
                SubSeq(peeked', 1, window_size - step_size)
                  = SubSeq(peeked, step_size + 1, window_size)]_vars

C12_Witness ==
    /\ pc = "live"
    /\ last_op = "compute_column"
    /\ columns >= 2
    /\ step_size >= 1
    /\ window_size - step_size >= 2
    /\ peeked = SubSeq(Stream, step_size + 1, step_size + window_size)

RECURSIVE Pow10(_)
Pow10(e) == IF e = 0 THEN 1 ELSE 10 * Pow10(e - 1)

\* C13 (as claimed): log10_positive never yields a negative value; it yields
\* 0 for every value below one, zero and negative values such as -1
\* included, and log10(value) otherwise: -1, 0 and 1 give 0, 10 gives 1,
\* 100 gives 2, 1000 gives 3.
C13_ClampedLog ==
    (call.fn = "log10_positive" /\ call.done) =>
        LET num == call.arg.num
            den == call.arg.den
            r == call.result
        IN  /\ r.class = "finite"
            /\ r.val >= 0
            /\ num < den => r.val = 0
            /\ num >= den =>
                  /\ Pow10(r.val) * den <= num
                  /\ num < Pow10(r.val + 1) * den
            /\ (den = 1 /\ num \in {-1, 0, 1}) => r.val = 0
            /\ (den = 1 /\ num = 10) => r.val = 1
            /\ (den = 1 /\ num = 100) => r.val = 2
            /\ (den = 1 /\ num = 1000) => r.val = 3

\* C14: for each of the five variants, parsing its display name in any
\* letter case returns that variant; "Hanning", "hanning" and "hann" all
\* parse to Hanning, whose display name is "Hanning".
C14_ParseRoundTrip ==
    /\ (call.fn = "from_str" /\ call.done) =>
          /\ \A w \in WindowTypes :
                call.arg \in CaseVariants(to_string(w)) => call.result = Ok(w)
          /\ call.arg \in {<<"H", "a", "n", "n", "i", "n", "g">>,
                           <<"h", "a", "n", "n", "i", "n", "g">>,
                           <<"h", "a", "n", "n">>} =>
                call.result = Ok("Hanning")
    /\ (call.fn = "to_string" /\ call.done /\ call.arg = "Hanning") =>
          call.result = <<"H", "a", "n", "n", "i", "n", "g">>

\* A display name in mixed case has been parsed.
C14_Witness ==
    /\ call.fn = "from_str"
    /\ call.done
    /\ call.arg = <<"b", "L", "a", "C", "k", "M", "a", "N">>
    /\ call.result = Ok("Blackman")

Keywords ==
    {<<"h", "a", "n", "n", "i", "n", "g">>, <<"h", "a", "n", "n">>,
     <<"h", "a", "m", "m", "i", "n", "g">>,
     <<"b", "l", "a", "c", "k", "m", "a", "n">>,
     <<"n", "u", "t", "t", "a", "l", "l">>, <<"n", "o", "n", "e">>}

\* C15: parsing is total: a string whose lowercase form is none of the six
\* keywords yields an error value and never a crash, and a string whose
\* lowercase form is one of them yields Ok with the corresponding variant.
C15_ParseTotal ==
    (call.fn = "from_str" /\ call.done) =>
        LET lower == to_lowercase(call.arg)
        IN  /\ pc # "panicked"
            /\ lower \notin Keywords =>
                  /\ ~call.result.ok
                  /\ call.result = Err("no match")
            /\ lower \in Keywords =>
                  /\ call.result.ok
                  /\ \/ lower = <<"h", "a", "n", "n">> /\ call.result.val = "Hanning"
                     \/ lower = to_lowercase(to_string(call.result.val))

\* An unknown string has been parsed into the error value, and a string no
\* display name spells has been parsed into a variant.
C15_Witness ==
    /\ call.fn = "from_str"
    /\ call.done
    /\ \/ call.arg = <<"n", "O", "n", "-", "E">> /\ ~call.result.ok
       \/ call.arg = <<"b", "l", "a", "c", KelvinSign, "m", "a", "n">>
             /\ call.result = Ok("Blackman")

Ready == pc = "live" /\ contains_enough_to_compute
Filling == pc = "live" /\ ~contains_enough_to_compute

\* C16 (as claimed): for every engine that construction accepts, the drain
\* loop of the doc example, compute a column and advance while enough
\* samples are buffered, terminates: a Ready engine eventually is Filling.
C16_DrainTerminates == (Ready /\ last_op # "new") ~> Filling

\* The same for engines whose step is positive.
C16_DrainTerminatesPositiveStep ==
    (Ready /\ last_op # "new" /\ step_size >= 1) ~> Filling

\* The drain loop of the doc example has just been left, or was not entered.
Drained == Filling /\ last_op \in {"append_samples", "move_to_next_column"}

\* C17: when move_to_next_column is only called in the Ready state, a drop
\* never exceeds the buffered count and len >= window_size - step_size
\* holds right after every advance; once a column has been produced the
\* drain loop exits with window_size - step_size <= len < window_size, so
\* the engine is not empty after the loop when step_size < window_size.
C17_AdvanceKeepsOverlap ==
    [][/\ (pc = "live" /\ last_op' = "move_to_next_column") =>
            /\ contains_enough_to_compute
            /\ step_size <= len
            /\ pc' = "live"
            /\ len' = len - step_size
            /\ len' >= window_size - step_size
       /\ (Drained' /\ columns' >= 1) =>
            /\ window_size - step_size <= len'
            /\ len' < window_size
            /\ step_size < window_size => ~is_empty']_vars

\* The loop has been left after a column, with an overlap still buffered.
C17_Witness ==
    /\ Drained
    /\ last_op = "move_to_next_column"
    /\ columns >= 2
    /\ 1 <= step_size
    /\ step_size < window_size
    /\ len = window_size - step_size

\* C18: Ready is stable under everything except an advance: once enough
\* samples are buffered they stay so across append_samples and compute
\* calls, and stop being so only through move_to_next_column; a Filling
\* engine becomes Ready only through append_samples.
C18_ReadyStable ==
    [][/\ (Ready /\ ~contains_enough_to_compute') =>
            last_op' = "move_to_next_column"
       /\ (Ready /\ last_op' # "move_to_next_column") =>
            contains_enough_to_compute'
       /\ (Filling /\ contains_enough_to_compute') =>
            last_op' = "append_samples"]_vars

\* Samples were appended to a Ready engine, which is still Ready.
C18_Witness ==
    /\ Ready
    /\ 1 <= window_size
    /\ last_op = "append_samples"
    /\ len >= window_size + MaxChunk

\* The number of windows of a stream of total samples.
ColumnsOf(total) ==
    IF total < window_size THEN 0
    ELSE (total - window_size) \div step_size + 1

\* C19: chunking independence: under the doc example's protocol the windows
\* peeked for the emitted columns, and their number, depend only on the
\* concatenation of the appended samples and not on how it was split into
\* append_samples calls: column number c peeks the window_size samples of
\* the stream from position c * step_size on, and for a step of at least
\* one a stream of K samples has given floor((K - window_size) / step_size)
\* + 1 columns once drained if K >= window_size, and none if K < window_size.
C19_ChunkingIndependent ==
    [][/\ (pc = "live" /\ last_op' = "compute_column") =>
            peeked' = SubSeq(Stream, columns * step_size + 1,
                             columns * step_size + window_size)
       /\ (Drained' /\ step_size' >= 1) =>
            columns' = ColumnsOf(total_appended)']_vars

\* A stream given in more than one chunk has been drained into several
\* columns, its last window ending short of the end of the stream.
C19_Witness ==
    /\ Drained
    /\ 1 <= step_size
    /\ columns >= 2
    /\ last_op = "move_to_next_column"
    /\ total_appended > (columns - 1) * step_size + window_size
    /\ total_appended > MaxChunk

\* Two compute calls in a row on a live engine, both with a buffer of
\* output_size elements: no append and no advance lies between them.
ConsecutiveComputes(first, second) ==
    /\ pc = "live"
    /\ pc' = "live"
    /\ last_op = first
    /\ last_op' = second
    /\ Len(output) = output_size
    /\ Len(output') = output_size

\* C20 (as claimed): the three compute variants agree at one column
\* position: with no append or advance in between, in whatever order they
\* are called, compute_magnitude_column yields the elementwise magnitude of
\* what compute_complex_column yields, and compute_column the clamped log
\* of what compute_magnitude_column yields, at every index of the output.
C20_VariantsAgree ==
    [][/\ ConsecutiveComputes("compute_complex_column",
                              "compute_magnitude_column") =>
            \A i \in 1..output_size : output'[i] = norm(output[i])
       /\ ConsecutiveComputes("compute_magnitude_column",
                              "compute_complex_column") =>
            \A i \in 1..output_size : output[i] = norm(output'[i])
       /\ ConsecutiveComputes("compute_magnitude_column",
                              "compute_column") =>
            \A i \in 1..output_size :
                output'[i] = log10_positive(output[i], TRUE)
       /\ ConsecutiveComputes("compute_column",
                              "compute_magnitude_column") =>
            \A i \in 1..output_size :
                output[i] = log10_positive(output'[i], TRUE)]_vars

====
